---- MODULE Spec2Model ----
(***************************************************************************)
(* split-bam-by-reads: partition the records of one alignment container    *)
(* into one output container per text file of read names.                  *)
(* Model of src/bin/split-bam-by-reads.rs, fn main.                        *)
(***************************************************************************)
EXTENDS Integers, Sequences, FiniteSets, TLC

(***************************************************************************)
(* Bounds of the model.                                                    *)
(***************************************************************************)
\* longest list of -r/--reads text sources that is explored
MaxReads == 2
\* longest record stream that is explored exhaustively
MaxRecords == 3

(***************************************************************************)
(* Text, as sequences of characters.                                       *)
(***************************************************************************)
NL == "\n"
CR == "\r"
\* the characters str::trim strips from both ends: the 25 code points with
\* the Unicode White_Space property (char::is_whitespace). A character that
\* has no escape is written as its code point.
VT == "U+000B"
FF == "\f"
NEL == "U+0085"
NBSP == "U+00A0"
Whitespace ==
    {"\t", NL, VT, FF, CR, " ", NEL, NBSP, "U+1680",
     "U+2000", "U+2001", "U+2002", "U+2003", "U+2004", "U+2005", "U+2006",
     "U+2007", "U+2008", "U+2009", "U+200A",
     "U+2028", "U+2029", "U+202F", "U+205F", "U+3000"}
\* a byte that is not valid UTF-8 on its own
BadByte == "0xFF"

RECURSIVE TrimStart(_)
TrimStart(s) ==
    IF s # <<>> /\ Head(s) \in Whitespace THEN TrimStart(Tail(s)) ELSE s

RECURSIVE TrimEnd(_)
TrimEnd(s) ==
    IF s # <<>> /\ s[Len(s)] \in Whitespace
    THEN TrimEnd(SubSeq(s, 1, Len(s) - 1))
    ELSE s

\* str::trim().to_string()
Trim(s) == TrimEnd(TrimStart(s))

\* index of the first line feed of s, 0 when it has none
RECURSIVE FirstNL(_, _)
FirstNL(s, i) ==
    IF i > Len(s) THEN 0
    ELSE IF s[i] = NL THEN i
    ELSE FirstNL(s, i + 1)

\* a line as BufRead::lines yields it: without its "\n" or "\r\n"
StripCR(l) ==
    IF l # <<>> /\ l[Len(l)] = CR THEN SubSeq(l, 1, Len(l) - 1) ELSE l

\* BufRead::lines: the lines of a file's content, in order
RECURSIVE Lines(_)
Lines(content) ==
    IF content = <<>> THEN <<>>
    ELSE LET n == FirstNL(content, 1) IN
         IF n = 0 THEN <<content>>
         ELSE <<StripCR(SubSeq(content, 1, n - 1))>>
              \o Lines(SubSeq(content, n + 1, Len(content)))

\* mutant of InsertLines: blank lines are skipped
RECURSIVE InsertLinesSkipBlank(_, _)
InsertLinesSkipBlank(set, ls) ==
    IF ls = <<>> THEN set
    ELSE IF Trim(Head(ls)) = <<>> THEN InsertLinesSkipBlank(set, Tail(ls))
    ELSE InsertLinesSkipBlank(set \cup {Trim(Head(ls))}, Tail(ls))

\* the set built by the loop over reader.lines(): every trimmed line inserted
RECURSIVE InsertLines(_, _)
InsertLines(set, ls) ==
    IF ls = <<>> THEN set
    ELSE InsertLines(set \cup {Trim(Head(ls))}, Tail(ls))

\* std::str::from_utf8(record.qname()): Ok(the name), or an error
FromUtf8(qname) ==
    [ok |-> \A i \in 1..Len(qname) : qname[i] # BadByte, str |-> qname]

(***************************************************************************)
(* Paths, as sequences of tokens: the separator "/", the dot ".", and runs  *)
(* of other characters; <<"s1", ".", "txt">> is s1.txt.                     *)
(***************************************************************************)
Sep == "/"
Dot == "."

\* the token at k is a "." that is a whole component of the path
IsCurDir(path, k) ==
    /\ path[k] = Dot
    /\ (k = 1 \/ path[k - 1] = Sep)
    /\ (k = Len(path) \/ path[k + 1] = Sep)

\* where the last component of path[1..k] ends: trailing separators and "."
\* components are not components (Path::components); 0 when nothing is left
RECURSIVE LastEnd(_, _)
LastEnd(path, k) ==
    IF k = 0 THEN 0
    ELSE IF path[k] = Sep \/ IsCurDir(path, k) THEN LastEnd(path, k - 1)
    ELSE k

\* where the component that ends at e starts
RECURSIVE CompStart(_, _)
CompStart(path, e) ==
    IF e = 1 \/ path[e - 1] = Sep THEN e ELSE CompStart(path, e - 1)

\* index of the last dot of path[s..e], 0 when it has none
RECURSIVE LastDot(_, _, _)
LastDot(path, s, e) ==
    IF e < s THEN 0
    ELSE IF path[e] = Dot THEN e
    ELSE LastDot(path, s, e - 1)

\* Path::file_stem: where the stem of the file name ends, 0 when the path
\* has no file name (it is empty, a root, "." or ends in ".."). A file name
\* without a dot, or whose only dot is its first character, is all stem.
StemEnd(path) ==
    LET e == LastEnd(path, Len(path))
        s == IF e = 0 THEN 0 ELSE CompStart(path, e)
        d == IF e = 0 THEN 0 ELSE LastDot(path, s, e)
    IN  IF e = 0 THEN 0
        ELSE IF SubSeq(path, s, e) = <<Dot, Dot>> THEN 0
        ELSE IF d = 0 \/ d = s THEN e
        ELSE d - 1

\* PathBuf::set_extension: the path cut after the stem of its file name, then
\* "." and the extension; a path without a file name is left as it is
SetExtension(path, ext) ==
    IF StemEnd(path) = 0 THEN path
    ELSE SubSeq(path, 1, StemEnd(path)) \o <<Dot, ext>>

\* the path ends with its file name, and that name has a stem, a dot and
\* characters after the dot (Path::extension is Some and not empty)
EndsWithExtension(path) ==
    /\ path # <<>>
    /\ LastEnd(path, Len(path)) = Len(path)
    /\ StemEnd(path) # 0
    /\ StemEnd(path) + 1 < Len(path)

\* the copy with_extension starts from: the path without the bytes of its
\* old extension, the dot kept. When separators or "." components follow the
\* file name the bytes cut from the end leave the stem and its dot in place
\* and set_extension gives what it gives on the whole path, so the path
\* itself stands for that copy.
WithoutExtension(path) ==
    IF EndsWithExtension(path) THEN SubSeq(path, 1, Len(path) - 1) ELSE path

\* Path::with_extension: set_extension on the copy without the old
\* extension; "..a" gives "..", which has no file name and stays as it is
WithExtension(path, ext) == SetExtension(WithoutExtension(path), ext)

(***************************************************************************)
(* The files the run can be pointed at.                                    *)
(***************************************************************************)
\* s1.txt, ./s2.txt, s1.tsv, run.1/e and missing.txt
S1Txt == <<"s1", Dot, "txt">>
S2Txt == <<Dot, Sep, "s2", Dot, "txt">>
S1Tsv == <<"s1", Dot, "tsv">>
EPlain == <<"run", Dot, "1", Sep, "e">>
NoTxt == <<"missing", Dot, "txt">>

NoFile == "NoFile"

\* content of each text source, NoFile when File::open fails on it
FileContent(path) ==
    CASE path = S1Txt -> <<"a", NL, "c", NL>>
      [] path = S2Txt -> <<"b", NL, "d">>
      [] path = S1Tsv -> <<" ", "a", NL, "a", NBSP, CR, NL, NL, FF, "b", NL>>
      [] path = EPlain -> <<>>
      [] OTHER -> NoFile

SourcePaths == {S1Txt, S2Txt, S1Tsv, EPlain, NoTxt}

RECURSIVE SeqsUpTo(_, _)
SeqsUpTo(S, n) ==
    IF n = 0 THEN {<<>>}
    ELSE LET shorter == SeqsUpTo(S, n - 1) IN
         shorter \cup {Append(s, x) : s \in shorter, x \in S}

\* the query names a record of the input can carry
QNames == {<<"a">>, <<"b">>, <<"c">>, <<"d">>, <<>>, <<BadByte>>}

\* the documented five-record scenario, explored beyond MaxRecords
ScenarioNames == << <<"a">>, <<"b">>, <<"a">>, <<"c">>, <<"d">> >>

(***************************************************************************)
(* State of one run of main.                                               *)
(***************************************************************************)
VARIABLES
    pc,         \* where main is: Start, Load, OpenBam, MakeOuts, Stream,
                \* Finalize, Done, Failed
    optsReads,  \* opts.reads: the text sources, in command-line order
    optsVerbose,\* opts.verbose: how many times -v was given
    maxLevel,   \* the level filter of the logger, Off until it is set
    loaded,     \* result of each par_iter task of the load, and its rank
                \* in the order the tasks finished, until collect takes them
    reads,      \* reads: the collected (path, set) pairs
    outs,       \* outs: the (writer, set) pairs, in bucket order
    created,    \* paths of the output files created so far
    stream,     \* the items bam.records() has yielded so far
    reported,   \* the sizes of the sets at the log::info!("had {} unplaced
                \* reads") calls made so far, written or not
    logged,     \* the counts of the lines those calls wrote to stderr: the
                \* macro writes a line only when the Info level is enabled
    err         \* the error or panic main ended with, NoError while it runs

vars ==
    <<pc, optsReads, optsVerbose, maxLevel, loaded, reads, outs, created,
      stream, reported, logged, err>>

NoError == "NoError"
\* File::open(path).unwrap() panicked in a load task
SourceUnreadable == "SourceUnreadable"
\* bam::Reader::from_path(opts.bam)? returned an error
BamUnreadable == "BamUnreadable"
\* bam::Writer::from_path(..)? returned an error
WriterCreateFailure == "WriterCreateFailure"
\* out.set_threads(opts.threads)? returned an error on a writer just created
WriterThreadsFailure == "WriterThreadsFailure"
\* let record = record?; returned an error
DecodeError == "DecodeError"
\* std::str::from_utf8(record.qname())? returned an error
Utf8Error == "Utf8Error"
\* out.write(&record)? returned an error
WriteFailure == "WriteFailure"

\* phases of the run, as the design names them
Idle == {"Start", "Load", "OpenBam", "MakeOuts"}
Streaming == {"Stream"}
Finalizing == {"Finalize"}

FileExists(path) == path \in {S1Txt, S2Txt, S1Tsv, EPlain}

\* the body of the closure given to par_iter().map: one source's set
LoadSet(path) == InsertLines({}, Lines(FileContent(path)))

\* the values of -v explored: none (the default) and one
Verbosities == {0, 1}

\* the match of set_log_level
MinLogLevel(verbose) ==
    CASE verbose = 0 -> "Warn"
      [] verbose = 1 -> "Info"
      [] verbose = 2 -> "Debug"
      [] OTHER -> "Trace"

\* log::info! writes its line when the filter lets the Info level through
InfoEnabled(level) == level \in {"Info", "Debug", "Trace"}

Init ==
    /\ pc = "Start"
    /\ optsReads \in SeqsUpTo(SourcePaths, MaxReads)
    /\ optsVerbose \in Verbosities
    /\ maxLevel = "Off"
    /\ loaded = [i \in 1..Len(optsReads) |->
                   [state |-> "pending", set |-> {}, at |-> 0]]
    /\ reads = <<>>
    /\ outs = <<>>
    /\ created = {}
    /\ stream = <<>>
    /\ reported = <<>>
    /\ logged = <<>>
    /\ err = NoError

\* set_log_level(&opts)
SetLogLevel ==
    /\ pc = "Start"
    /\ maxLevel' = MinLogLevel(optsVerbose)
    /\ pc' = "Load"
    /\ UNCHANGED <<optsReads, optsVerbose, loaded, reads, outs, created,
                   stream, reported, logged, err>>

(***************************************************************************)
(* Loading: one task per source, run by the thread pool in any order.      *)
(***************************************************************************)
\* how many load tasks have finished
Finished(ld) == Cardinality({j \in DOMAIN ld : ld[j].state # "pending"})

LoadTask(i) ==
    /\ pc = "Load"
    /\ loaded[i].state = "pending"
    /\ loaded' = [loaded EXCEPT ![i] =
                    IF FileExists(optsReads[i])
                    THEN [state |-> "done", set |-> LoadSet(optsReads[i]),
                          at |-> Finished(loaded) + 1]
                    ELSE [state |-> "panic", set |-> {},
                          at |-> Finished(loaded) + 1]]
    /\ UNCHANGED <<pc, optsReads, optsVerbose, maxLevel, reads, outs,
                   created, stream, reported, logged, err>>

\* mutant of Collected: the results in the order the tasks finished
CollectedByCompletion(ld, paths) ==
    [i \in 1..Len(paths) |->
        LET j == CHOOSE j \in DOMAIN ld : ld[j].at = i IN
        [path |-> paths[j], set |-> ld[j].set]]

\* collect::<Vec<_>>(): the results in the order of opts.reads
Collected(ld, paths) ==
    [i \in 1..Len(paths) |-> [path |-> paths[i], set |-> ld[i].set]]

Collect ==
    /\ pc = "Load"
    /\ \A i \in DOMAIN loaded : loaded[i].state = "done"
    /\ reads' = Collected(loaded, optsReads)
    /\ loaded' = <<>>
    /\ pc' = "OpenBam"
    /\ UNCHANGED <<optsReads, optsVerbose, maxLevel, outs, created, stream,
                   reported, logged, err>>

\* a task's panic is propagated out of the parallel iterator
LoadPanic ==
    /\ pc = "Load"
    /\ \E i \in DOMAIN loaded : loaded[i].state = "panic"
    /\ pc' = "Failed"
    /\ err' = SourceUnreadable
    /\ UNCHANGED <<optsReads, optsVerbose, maxLevel, loaded, reads, outs,
                   created, stream, reported, logged>>

(***************************************************************************)
(* Opening the input and making the outputs.                               *)
(***************************************************************************)
\* mutant of OpenBam: the input is opened after the outputs were made
OpenBamAfterOuts ==
    /\ pc = "OpenBam"
    /\ \/ /\ pc' = IF Len(reads) = 0 THEN "Stream" ELSE "MakeOuts"
          /\ UNCHANGED <<err, created>>
       \/ /\ pc' = "Failed"
          /\ err' = BamUnreadable
          /\ created' = {WithExtension(reads[i].path, "bam") : i \in DOMAIN reads}
    /\ UNCHANGED <<optsReads, optsVerbose, maxLevel, loaded, reads, outs,
                   stream, reported, logged>>

\* bam::Reader::from_path(opts.bam)? and bam.set_threads(opts.threads)?
OpenBam ==
    /\ pc = "OpenBam"
    /\ \/ /\ pc' = IF Len(reads) = 0 THEN "Stream" ELSE "MakeOuts"
          /\ err' = err
       \/ /\ pc' = "Failed"
          /\ err' = BamUnreadable
    /\ UNCHANGED <<optsReads, optsVerbose, maxLevel, loaded, reads, outs,
                   created, stream, reported, logged>>

\* bam::Writer::from_path(out_path, ..) on a new writer
NewWriter(path) == [path |-> path, recs |-> <<>>]

\* outs.push((out, set.clone()))
PushOut(os, read) ==
    Append(os, [out |-> NewWriter(WithExtension(read.path, "bam")),
                set |-> read.set])

\* one turn of the loop "for (path, set) in &reads": the writer is created,
\* given its threads and pushed; either call can fail, the second one after
\* the output file was created
MakeOut ==
    /\ pc = "MakeOuts"
    /\ Len(outs) < Len(reads)
    /\ \/ /\ outs' = PushOut(outs, reads[Len(outs) + 1])
          /\ created' = created \cup {WithExtension(reads[Len(outs) + 1].path, "bam")}
          /\ pc' = IF Len(outs') = Len(reads) THEN "Stream" ELSE "MakeOuts"
          /\ err' = err
       \/ /\ pc' = "Failed"
          /\ err' = WriterCreateFailure
          /\ UNCHANGED <<outs, created>>
       \/ /\ pc' = "Failed"
          /\ err' = WriterThreadsFailure
          /\ created' = created \cup {WithExtension(reads[Len(outs) + 1].path, "bam")}
          /\ outs' = outs
    /\ UNCHANGED <<optsReads, optsVerbose, maxLevel, loaded, reads, stream,
                   reported, logged>>

(***************************************************************************)
(* Routing: the closure given to try_for_each.                             *)
(***************************************************************************)
\* mutant of SetRemove: the set is tested with contains and never shrinks
SetKeep(set, name) == set

\* HashSet::remove: the set without the name (true iff it held the name)
SetRemove(set, name) == set \ {name}

\* mutant of Write: the record is put in front of the records written before
WriteFront(out, rec) == [out EXCEPT !.recs = <<rec>> \o @]

\* bam::Writer::write: the record appended to the writer's output
Write(out, rec) == [out EXCEPT !.recs = Append(@, rec)]

\* mutant of RouteFrom: the loop without its break
RECURSIVE RouteFromNoBreak(_, _, _, _, _)
RouteFromNoBreak(os, i, rec, name, wok) ==
    IF i > Len(os) THEN [outs |-> os, ok |-> TRUE]
    ELSE IF name \in os[i].set
    THEN LET removed == [os EXCEPT ![i].set = @ \ {name}] IN
         IF wok
         THEN RouteFromNoBreak(
                  [removed EXCEPT ![i].out.recs = Append(@, rec)],
                  i + 1, rec, name, wok)
         ELSE [outs |-> removed, ok |-> FALSE]
    ELSE RouteFromNoBreak(os, i + 1, rec, name, wok)

\* mutant of RouteFrom: a matched name is removed from every bucket's set
RECURSIVE RouteFromRemoveAll(_, _, _, _, _)
RouteFromRemoveAll(os, i, rec, name, wok) ==
    IF i > Len(os) THEN [outs |-> os, ok |-> TRUE]
    ELSE IF name \in os[i].set
    THEN LET removed == [j \in DOMAIN os |-> [os[j] EXCEPT !.set = @ \ {name}]] IN
         IF wok
         THEN [outs |-> [removed EXCEPT ![i].out.recs = Append(@, rec)],
               ok |-> TRUE]
         ELSE [outs |-> removed, ok |-> FALSE]
    ELSE RouteFromRemoveAll(os, i + 1, rec, name, wok)

\* mutant of RouteFrom: the record is written before the name is removed, so
\* a write that fails leaves the set as it was
RECURSIVE RouteFromWriteFirst(_, _, _, _, _)
RouteFromWriteFirst(os, i, rec, name, wok) ==
    IF i > Len(os) THEN [outs |-> os, ok |-> TRUE]
    ELSE IF name \in os[i].set
    THEN IF wok
         THEN [outs |-> [os EXCEPT ![i].set = @ \ {name},
                                   ![i].out.recs = Append(@, rec)],
               ok |-> TRUE]
         ELSE [outs |-> os, ok |-> FALSE]
    ELSE RouteFromWriteFirst(os, i + 1, rec, name, wok)

\* the loop "for (out, set) in &mut outs" from bucket i on; wok is whether the
\* write, if one is made, succeeds. The loop ends at the first set that held
\* the name (break), or by the error of the write.
RECURSIVE RouteFrom(_, _, _, _, _)
RouteFrom(os, i, rec, name, wok) ==
    IF i > Len(os) THEN [outs |-> os, ok |-> TRUE]
    ELSE IF name \in os[i].set
    THEN LET removed == [os EXCEPT ![i].set = SetRemove(@, name)] IN
         IF wok
         THEN [outs |-> [removed EXCEPT ![i].out = Write(@, rec)], ok |-> TRUE]
         ELSE [outs |-> removed, ok |-> FALSE]
    ELSE RouteFrom(os, i + 1, rec, name, wok)

\* mutant of Route: the buckets are scanned from the last to the first
RECURSIVE RouteDown(_, _, _, _, _)
RouteDown(os, i, rec, name, wok) ==
    IF i < 1 THEN [outs |-> os, ok |-> TRUE]
    ELSE IF name \in os[i].set
    THEN LET removed == [os EXCEPT ![i].set = @ \ {name}] IN
         IF wok
         THEN [outs |-> [removed EXCEPT ![i].out.recs = Append(@, rec)],
               ok |-> TRUE]
         ELSE [outs |-> removed, ok |-> FALSE]
    ELSE RouteDown(os, i - 1, rec, name, wok)

RouteReversed(os, rec, name, wok) == RouteDown(os, Len(os), rec, name, wok)

\* mutant of Route: the scan starts one bucket too late
RouteSkipFirst(os, rec, name, wok) == RouteFrom(os, 2, rec, name, wok)

\* the closure's loop over all the buckets
Route(os, rec, name, wok) == RouteFrom(os, 1, rec, name, wok)

\* the names the reader can yield next
NextNames(st) ==
    IF Len(st) < MaxRecords THEN QNames
    ELSE IF /\ Len(st) < Len(ScenarioNames)
            /\ \A k \in 1..Len(st) : st[k].ok /\ st[k].qname = ScenarioNames[k]
    THEN {ScenarioNames[Len(st) + 1]}
    ELSE {}

\* one record of the input: position in the stream and query name
Record(k, qname) == [idx |-> k, qname |-> qname, ok |-> TRUE]
\* an item of the stream that failed to decode
Undecodable(k) == [idx |-> k, qname |-> <<>>, ok |-> FALSE]

\* mutant of RouteRecord: the result of out.write is dropped, not returned
RouteRecordIgnoresWriteError ==
    /\ pc = "Stream"
    /\ \E qname \in NextNames(stream), wok \in BOOLEAN :
         LET rec == Record(Len(stream) + 1, qname)
             query_name == FromUtf8(qname)
             r == Route(outs, rec, query_name.str, wok)
         IN  /\ stream' = Append(stream, rec)
             /\ IF ~query_name.ok
                THEN /\ pc' = "Failed"
                     /\ err' = Utf8Error
                     /\ outs' = outs
                ELSE /\ outs' = r.outs
                     /\ pc' = "Stream"
                     /\ err' = err
    /\ UNCHANGED <<optsReads, optsVerbose, maxLevel, loaded, reads,
                   created, reported, logged>>

\* the reader yields a record; the closure routes it
RouteRecord ==
    /\ pc = "Stream"
    /\ \E qname \in NextNames(stream), wok \in BOOLEAN :
         LET rec == Record(Len(stream) + 1, qname)
             query_name == FromUtf8(qname)
             r == Route(outs, rec, query_name.str, wok)
         IN  /\ stream' = Append(stream, rec)
             /\ IF ~query_name.ok
                THEN /\ pc' = "Failed"
                     /\ err' = Utf8Error
                     /\ outs' = outs
                ELSE /\ outs' = r.outs
                     /\ pc' = IF r.ok THEN "Stream" ELSE "Failed"
                     /\ err' = IF r.ok THEN err ELSE WriteFailure
    /\ UNCHANGED <<optsReads, optsVerbose, maxLevel, loaded, reads,
                   created, reported, logged>>

\* mutant of RecordError: the error is dropped and the stream goes on
RecordErrorSkipped ==
    /\ pc = "Stream"
    /\ Len(stream) < MaxRecords
    /\ stream' = Append(stream, [idx |-> Len(stream) + 1, qname |-> <<>>, ok |-> FALSE])
    /\ UNCHANGED <<pc, optsReads, optsVerbose, maxLevel, loaded, reads,
                   outs, created, reported, logged, err>>

\* the reader yields an error: let record = record?;
RecordError ==
    /\ pc = "Stream"
    /\ stream' = Append(stream, Undecodable(Len(stream) + 1))
    /\ pc' = "Failed"
    /\ err' = DecodeError
    /\ UNCHANGED <<optsReads, optsVerbose, maxLevel, loaded, reads, outs,
                   created, reported, logged>>

\* mutant of EndOfStream: main returns without the loop over the leftovers
EndOfStreamSkip ==
    /\ pc = "Stream"
    /\ pc' = "Done"
    /\ UNCHANGED <<optsReads, optsVerbose, maxLevel, loaded, reads, outs,
                   created, stream, reported, logged, err>>

\* the reader is exhausted: try_for_each returns Ok
EndOfStream ==
    /\ pc = "Stream"
    /\ pc' = "Finalize"
    /\ UNCHANGED <<optsReads, optsVerbose, maxLevel, loaded, reads, outs,
                   created, stream, reported, logged, err>>

(***************************************************************************)
(* Finalization: the loop that logs each bucket's unplaced reads.          *)
(***************************************************************************)
\* mutant of Unplaced: the size the set was loaded with
UnplacedLoaded(o) == Cardinality(o.set) + Len(o.out.recs)

\* log::info!("had {} unplaced reads", set.len())
Unplaced(o) == Cardinality(o.set)

\* the lines on stderr after the count n was handed to log::info!
Logged(lg, n) == IF InfoEnabled(maxLevel) THEN Append(lg, n) ELSE lg

\* mutant of Report: the leftovers are reported from the last bucket to the
\* first
ReportReversed ==
    /\ pc = "Finalize"
    /\ Len(reported) < Len(outs)
    /\ reported' = Append(reported, Cardinality(outs[Len(outs) - Len(reported)].set))
    /\ logged' = Logged(logged, Cardinality(outs[Len(outs) - Len(reported)].set))
    /\ UNCHANGED <<pc, optsReads, optsVerbose, maxLevel, loaded, reads, outs,
                   created, stream, err>>

\* one turn of the loop "for (_path, set) in outs"
Report ==
    /\ pc = "Finalize"
    /\ Len(reported) < Len(outs)
    /\ reported' = Append(reported, Unplaced(outs[Len(reported) + 1]))
    /\ logged' = Logged(logged, Unplaced(outs[Len(reported) + 1]))
    /\ UNCHANGED <<pc, optsReads, optsVerbose, maxLevel, loaded, reads, outs,
                   created, stream, err>>

\* Ok(()) at the end of main
Finish ==
    /\ pc = "Finalize"
    /\ Len(reported) = Len(outs)
    /\ pc' = "Done"
    /\ UNCHANGED <<optsReads, optsVerbose, maxLevel, loaded, reads, outs,
                   created, stream, reported, logged, err>>

\* what a finished run gives at its end: the "had {} unplaced reads" lines
\* that the logger wrote (none unless -v was given), and the unit that main
\* returns in Ok(()). Earlier the run may have shown a "{} had {} reads" line
\* for each source (line 61, with -v) and, on a terminal, a progress bar with
\* the number of records read so far (line 80), erased when the stream ends.
Summary == [leftovers |-> logged, returned |-> <<>>]

Next ==
    \/ SetLogLevel
    \/ \E i \in DOMAIN loaded : LoadTask(i)
    \/ Collect
    \/ LoadPanic
    \/ OpenBam
    \/ MakeOut
    \/ RouteRecord
    \/ RecordError
    \/ EndOfStream
    \/ Report
    \/ Finish

Spec == Init /\ [][Next]_vars

\* the source lists of the runs explored for termination: no bucket, one
\* bucket, two buckets with and without a shared name, an empty source, and a
\* source that cannot be opened
FairReads ==
    {<<>>, <<S1Tsv>>, <<EPlain>>, <<S1Txt, S1Tsv>>, <<S1Tsv, S1Txt>>,
     <<S1Txt, S2Txt>>, <<NoTxt>>, <<S1Txt, NoTxt>>, <<NoTxt, S1Txt>>}

InitFair == Init /\ optsReads \in FairReads

\* main runs on: whenever a step of the program is possible, one is taken
FairSpec == InitFair /\ [][Next]_vars /\ WF_vars(Next)

(***************************************************************************)
(* Vocabulary of the properties.                                           *)
(***************************************************************************)
Min(S) == CHOOSE x \in S : \A y \in S : x <= y

\* the buckets whose set holds the name
Matching(os, name) == {i \in DOMAIN os : name \in os[i].set}

\* the records of bucket i's output
Recs(os, i) == os[i].out.recs

\* the positions of the stream whose record is in bucket i's output
WrittenIdx(os, i) == {Recs(os, i)[k].idx : k \in DOMAIN Recs(os, i)}

\* the records of bucket i's output that carry the name
WithName(os, i, name) == {k \in DOMAIN Recs(os, i) : Recs(os, i)[k].qname = name}

\* the names of the records of bucket i's output
NamesWritten(os, i) == {Recs(os, i)[k].qname : k \in DOMAIN Recs(os, i)}

RECURSIVE SumLen(_, _)
SumLen(os, i) == IF i = 0 THEN 0 ELSE Len(Recs(os, i)) + SumLen(os, i - 1)

\* records written, over all the buckets
TotalMatched(os) == SumLen(os, Len(os))

\* the records of the stream that are in no bucket's output: the number an
\* unmatched counter is to hold (the program keeps none)
UnmatchedCount(st, os) ==
    Cardinality({k \in DOMAIN st :
                   st[k].ok /\ \A i \in DOMAIN os : k \notin WrittenIdx(os, i)})

\* the item the step pulled from the reader
Pulled == stream'[Len(stream')]

\* the step handed a decoded record with a textual name to the bucket loop
Evaluated ==
    /\ pc = "Stream"
    /\ Len(stream') = Len(stream) + 1
    /\ Pulled.ok
    /\ FromUtf8(Pulled.qname).ok

\* ... and the loop ran to its end without a write error
Routed == Evaluated /\ pc' = "Stream"

\* the buckets whose output the step changed
Wrote == {i \in DOMAIN outs : Recs(outs', i) # Recs(outs, i)}

\* the lines the logger let through, given what was handed to log::info!
Emitted == IF InfoEnabled(maxLevel) THEN reported ELSE <<>>

\* the buckets whose set the step changed
Shrunk == {i \in DOMAIN outs : outs'[i].set # outs[i].set}

(***************************************************************************)
(* C1. Routing one record writes it to at most one bucket's output: no step *)
(* appends to two outputs, an output grows by exactly the record pulled,    *)
(* and when the record's name is in several buckets' sets exactly one write *)
(* happens and the buckets after that one are left as they were (the scan   *)
(* stopped there).                                                          *)
(***************************************************************************)
C1_Step ==
    /\ Cardinality(Wrote) <= 1
    /\ \A i \in Wrote : Evaluated /\ Recs(outs', i) = Append(Recs(outs, i), Pulled)
    /\ (Routed /\ Cardinality(Matching(outs, Pulled.qname)) >= 2) =>
          /\ Cardinality(Wrote) = 1
          /\ \A j \in DOMAIN outs :
                j > Min(Matching(outs, Pulled.qname)) => outs'[j] = outs[j]

\* C1: routing one record appends it to at most one output, and stops at
\* the first bucket whose set held its name.
C1_AtMostOneWrite == [][C1_Step]_vars

\* a record whose name two sets held is in the first output only, and the
\* second set still holds the name
C1_Witness ==
    /\ Len(outs) = 2
    /\ Len(stream) = 1
    /\ stream[1].qname \in reads[1].set \cap reads[2].set
    /\ Recs(outs, 1) = <<stream[1]>>
    /\ Recs(outs, 2) = <<>>
    /\ stream[1].qname \in outs[2].set

(***************************************************************************)
(* C2. A matched record goes to the lowest-index bucket whose set holds its *)
(* name when the record is evaluated, and the name leaves that set; so when *)
(* a name is in the sets of buckets 1 and 2 and two records with that name  *)
(* arrive, the first is in output 1 and the second in output 2.             *)
(***************************************************************************)
C2_Step ==
    /\ (Routed /\ Matching(outs, Pulled.qname) # {}) =>
          LET first == Min(Matching(outs, Pulled.qname)) IN
          /\ Wrote = {first}
          /\ Recs(outs', first) = Append(Recs(outs, first), Pulled)
          /\ outs'[first].set = outs[first].set \ {Pulled.qname}
    /\ (/\ pc' # "Failed"
        /\ Len(outs') >= 2
        /\ Len(stream') >= 2
        /\ stream'[1].qname = stream'[2].qname
        /\ stream'[1].qname \in reads'[1].set \cap reads'[2].set) =>
          /\ Recs(outs', 1)[1] = stream'[1]
          /\ Recs(outs', 2)[1] = stream'[2]
          /\ stream'[1].qname \notin outs'[1].set

\* C2: a matched record goes to the lowest-index bucket whose set holds its
\* name at that moment; two records with a name of sets 1 and 2 go to 1, then 2.
C2_FirstMatch == [][C2_Step]_vars

\* two records with a name of both sets: one in each output, in bucket order
C2_Witness ==
    /\ Len(outs) = 2
    /\ Len(stream) = 2
    /\ stream[1].qname = stream[2].qname
    /\ stream[1].qname \in reads[1].set \cap reads[2].set
    /\ Recs(outs, 1) = <<stream[1]>>
    /\ Recs(outs, 2) = <<stream[2]>>
    /\ stream[1].qname \notin outs[1].set \cup outs[2].set

(***************************************************************************)
(* C3. A record that is routed (its write, if any, succeeding) is written   *)
(* to some bucket if and only if its name is in at least one bucket's set   *)
(* when it is evaluated, the sets being what the earlier records left; a    *)
(* record whose name is in no set then is written to no output and changes  *)
(* no set.                                                                  *)
(***************************************************************************)
C3_Step ==
    /\ Routed => (Wrote # {} <=> Matching(outs, Pulled.qname) # {})
    /\ (Evaluated /\ Matching(outs, Pulled.qname) = {}) => outs' = outs
    /\ \A i \in Wrote : Pulled \in {Recs(outs', i)[k] : k \in DOMAIN Recs(outs', i)}

\* C3: a routed record is written iff some set holds its name when it is
\* evaluated; an unmatched record is written nowhere.
C3_WrittenIffMatched == [][C3_Step]_vars

\* the name was in a set, its first record was written and removed it, and
\* its second record went to no output
C3_Witness ==
    /\ pc = "Stream"
    /\ Len(outs) = 1
    /\ Len(stream) = 3
    /\ stream[1].qname = stream[3].qname
    /\ stream[2].qname \notin reads[1].set
    /\ WrittenIdx(outs, 1) = {1}

(***************************************************************************)
(* C4. After the whole stream is consumed, bucket i's leftover set is its   *)
(* loaded set less the names of the records routed to it, the count         *)
(* reported for it is the loaded set's size less the number of those        *)
(* records, and a name of the loaded set that no record of the stream       *)
(* carries is still in the leftover set. The counts are reported to the     *)
(* logger, which writes them when the Info level is enabled (-v).           *)
(***************************************************************************)
StreamNames == {stream[k].qname : k \in DOMAIN stream}

C4_Leftovers ==
    pc \in {"Finalize", "Done"} =>
       /\ Len(outs) = Len(reads)
       /\ \A i \in DOMAIN outs :
             /\ outs[i].set = reads[i].set \ NamesWritten(outs, i)
             /\ Cardinality(outs[i].set) =
                   Cardinality(reads[i].set) - Len(Recs(outs, i))
             /\ reads[i].set \ StreamNames \subseteq outs[i].set
       /\ \A i \in DOMAIN reported :
             reported[i] = Cardinality(reads[i].set) - Len(Recs(outs, i))
       /\ pc = "Done" => Len(reported) = Len(outs)
       /\ logged = Emitted

\* a finished run whose bucket took a record and keeps a name never seen,
\* with the counts on stderr
C4_Witness ==
    /\ pc = "Done"
    /\ logged = reported
    /\ \E i \in DOMAIN outs :
          /\ Len(Recs(outs, i)) >= 1
          /\ reported[i] >= 1
          /\ outs[i].set \ StreamNames # {}

(***************************************************************************)
(* C5. At every point of the run each bucket's output is a subsequence of   *)
(* the record stream: its records are records of the stream, at strictly    *)
(* increasing positions (none reordered, none twice).                       *)
(***************************************************************************)
C5_Subsequence ==
    \A i \in DOMAIN outs :
       /\ \A k \in DOMAIN Recs(outs, i) :
             /\ Recs(outs, i)[k].idx \in DOMAIN stream
             /\ Recs(outs, i)[k] = stream[Recs(outs, i)[k].idx]
       /\ \A k, l \in DOMAIN Recs(outs, i) :
             k < l => Recs(outs, i)[k].idx < Recs(outs, i)[l].idx

\* an output that holds the first and the third record, the second being
\* elsewhere
C5_Witness ==
    \E i \in DOMAIN outs :
       /\ Len(stream) = 3
       /\ Recs(outs, i) = <<stream[1], stream[3]>>

(***************************************************************************)
(* C6. A record whose name is in no bucket's set when it is evaluated is    *)
(* written nowhere and adds one to a per-run count of unmatched records,    *)
(* which the finished run gives: seen = written + unmatched, one unmatched  *)
(* record for the stream [a,b,a,c,d] with the sets {a,c} and {b,d}, and as  *)
(* many unmatched records as records with a single empty text source.       *)
(* The routing is as claimed; the count is kept and given nowhere.          *)
(***************************************************************************)
\* C6: a run over at least one bucket that finished with a record in no
\* output gives the number of such records as its unmatched count.
C6_UnmatchedCounted ==
    (pc = "Done" /\ Len(outs) >= 1 /\ UnmatchedCount(stream, outs) >= 1) =>
       /\ "unmatched" \in DOMAIN Summary
       /\ Summary.unmatched = UnmatchedCount(stream, outs)

(***************************************************************************)
(* C7. Over the whole run, a bucket's output holds at most one record with  *)
(* a given name, and only names its set was loaded with; so the records     *)
(* with a given name written over all the buckets are never more than the   *)
(* sets that held the name at the start.                                    *)
(***************************************************************************)
C7_OncePerBucket ==
    \A name \in QNames :
       /\ \A i \in DOMAIN outs :
             /\ Cardinality(WithName(outs, i, name)) <= 1
             /\ WithName(outs, i, name) # {} => name \in reads[i].set
       /\ Cardinality({k \in DOMAIN stream :
                         \E i \in DOMAIN outs :
                            k \in WrittenIdx(outs, i) /\ stream[k].qname = name})
             <= Cardinality({i \in DOMAIN reads : name \in reads[i].set})

\* three records with one name of two sets: one in each output, the third
\* in none
C7_Witness ==
    /\ Len(outs) = 2
    /\ Len(stream) = 3
    /\ stream[1].qname = stream[2].qname
    /\ stream[2].qname = stream[3].qname
    /\ pc = "Stream"
    /\ WrittenIdx(outs, 1) = {1}
    /\ WrittenIdx(outs, 2) = {2}

(***************************************************************************)
(* C8. The run goes Idle -> Streaming -> Finalizing -> Done; it fails only  *)
(* from Idle or Streaming, never from Finalizing or Done; records are       *)
(* routed only while Streaming, leftovers reported only while Finalizing;   *)
(* once the run is Failed or Done nothing changes any more.                 *)
(***************************************************************************)
C8_Step ==
    /\ pc \in Idle => pc' \in Idle \cup Streaming \cup {"Failed"}
    /\ pc \in Streaming => pc' \in Streaming \cup Finalizing \cup {"Failed"}
    /\ pc \in Finalizing => pc' \in Finalizing \cup {"Done"}
    /\ pc \in {"Done", "Failed"} => UNCHANGED vars
    /\ (stream' # stream \/ Wrote # {} \/ Shrunk # {}) => pc \in Streaming
    /\ (reported' # reported \/ logged' # logged) => pc \in Finalizing

\* C8: every step follows Idle -> Streaming -> Finalizing -> Done, fails only
\* from Idle or Streaming, and nothing follows Done or Failed.
C8_StateMachine == [][C8_Step]_vars

\* a run that went through every phase and is Done
C8_Witness ==
    /\ pc = "Done"
    /\ Len(outs) = 2
    /\ Len(reported) = 2
    /\ TotalMatched(outs) >= 1

(***************************************************************************)
(* C9. When the reader yields a decode error, or a record whose name is not *)
(* valid text, at position k, the run fails there: the step changes no      *)
(* bucket, no record at a position >= k is in any output, no leftover is    *)
(* reported then or later, and nothing at all happens afterwards.           *)
(***************************************************************************)
\* the positions of the stream that hold an error or an untextual name
ErrAt(st) == {k \in DOMAIN st : ~st[k].ok \/ ~FromUtf8(st[k].qname).ok}

C9_Step ==
    /\ ErrAt(stream') # {} =>
          /\ pc' = "Failed"
          /\ err' \in {DecodeError, Utf8Error}
          /\ ErrAt(stream') = {Len(stream')}
          /\ reported' = <<>> /\ logged' = <<>>
          /\ \A i \in DOMAIN outs' :
                \A k \in WrittenIdx(outs', i) : k < Len(stream')
    /\ (ErrAt(stream) = {} /\ ErrAt(stream') # {}) => outs' = outs
    /\ ErrAt(stream) # {} => UNCHANGED vars

\* C9: a decode error or untextual name at position k ends the run there:
\* nothing at or after k is written, no set changes, no leftover is reported.
C9_DecodeErrorAborts == [][C9_Step]_vars

\* a run that wrote a record, then met a decode error, with names left
C9_Witness ==
    /\ pc = "Failed"
    /\ err = DecodeError
    /\ Len(stream) = 3
    /\ ~stream[3].ok
    /\ \E i \in DOMAIN outs : Recs(outs, i) # <<>> /\ outs[i].set # {}

(***************************************************************************)
(* C10. When a text source or the input container cannot be opened, no      *)
(* writer has been opened and no output file has been created, whichever    *)
(* source it is and whichever loads finished before.                        *)
(***************************************************************************)
C10_NoOutputOnOpenFailure ==
    (\/ \E i \in DOMAIN loaded : loaded[i].state = "panic"
     \/ err \in {SourceUnreadable, BamUnreadable}) =>
       /\ outs = <<>>
       /\ created = {}
       /\ stream = <<>>
       /\ reported = <<>>
       /\ logged = <<>>

\* the second source could not be opened after the first was loaded
C10_Witness ==
    /\ pc = "Failed"
    /\ err = SourceUnreadable
    /\ Len(optsReads) = 2
    /\ loaded[1].state = "done" /\ loaded[1].set # {}
    /\ loaded[2].state = "panic"

(***************************************************************************)
(* C11. A write failure while routing a record aborts the run at once: the  *)
(* record whose write failed is in no output, the run is Failed with the    *)
(* write error, no leftover is reported, and no later record is routed or   *)
(* written to any bucket.                                                   *)
(***************************************************************************)
\* the step matched a record and its write did not append it
WriteFailed == Evaluated /\ Matching(outs, Pulled.qname) # {} /\ Wrote = {}

C11_Step ==
    /\ WriteFailed =>
          /\ pc' = "Failed"
          /\ err' = WriteFailure
          /\ reported' = <<>> /\ logged' = <<>>
    /\ err' = WriteFailure =>
          /\ pc' = "Failed"
          /\ reported' = <<>> /\ logged' = <<>>
          /\ \A i \in DOMAIN outs' : Len(stream') \notin WrittenIdx(outs', i)
    /\ err = WriteFailure => UNCHANGED vars

\* C11: a write failure ends the run in failure at that record, with nothing
\* routed, written or reported afterwards.
C11_WriteFailureAborts == [][C11_Step]_vars

\* the first record was written, the write of the second failed
C11_Witness ==
    /\ pc = "Failed"
    /\ err = WriteFailure
    /\ Len(stream) = 2
    /\ Len(outs) = 2
    /\ TotalMatched(outs) = 1
    /\ \E i \in DOMAIN outs : WrittenIdx(outs, i) = {1}
    /\ reported = <<>>

(***************************************************************************)
(* C12. Whatever the order in which the load tasks finish, the collected    *)
(* sets are in the order of the source list (the i-th set is the one loaded *)
(* from the i-th source), so the outputs and the leftovers of a run are a   *)
(* function of the ordered source list and the record stream alone.         *)
(***************************************************************************)
\* what each source that can be opened gives by itself: its set of names and
\* its destination
BySource ==
    [p \in {q \in SourcePaths : FileExists(q)} |->
        [set |-> LoadSet(p), dest |-> WithExtension(p, "bam")]]

\* the buckets as the source list alone determines them
InitialOuts(paths) ==
    [i \in 1..Len(paths) |->
        [out |-> [path |-> BySource[paths[i]].dest, recs |-> <<>>],
         set |-> BySource[paths[i]].set]]

\* the records st[k..] routed one after the other, every write succeeding
RECURSIVE RoutedAll(_, _, _)
RoutedAll(os, st, k) ==
    IF k > Len(st) THEN os
    ELSE RoutedAll(Route(os, st[k], st[k].qname, TRUE).outs, st, k + 1)

ExpectedOuts(paths, st) == RoutedAll(InitialOuts(paths), st, 1)

C12_Step ==
    /\ (pc = "Load" /\ pc' = "OpenBam") =>
          reads' = [i \in 1..Len(optsReads) |->
                      [path |-> optsReads[i], set |-> LoadSet(optsReads[i])]]
    /\ pc' \in {"Stream", "Finalize", "Done"} =>
          LET expected == ExpectedOuts(optsReads', stream') IN
          /\ outs' = expected
          /\ \A i \in DOMAIN reported' :
                reported'[i] = Cardinality(expected[i].set)

\* C12: the collected sets are in source-list order whatever the order the
\* load tasks finished in, and outputs and leftovers depend on nothing else.
C12_LoadOrder == [][C12_Step]_vars

\* both loads are done, the second source's before the first's, and the two
\* sets differ
C12_Witness ==
    /\ pc = "Load"
    /\ Len(optsReads) = 2
    /\ loaded[1].state = "done" /\ loaded[2].state = "done"
    /\ loaded[2].at = 1 /\ loaded[1].at = 2
    /\ loaded[1].set # loaded[2].set

(***************************************************************************)
(* C13. Each text source gets its own output destination: when the source   *)
(* paths are pairwise distinct, the buckets' output paths are pairwise      *)
(* distinct, and there are as many output files as buckets, at least.       *)
(***************************************************************************)
PairwiseDistinct(seq) ==
    \A i, j \in DOMAIN seq : i # j => seq[i] # seq[j]

\* C13: pairwise distinct source paths give pairwise distinct output paths.
C13_DistinctOutputs ==
    PairwiseDistinct(optsReads) =>
       /\ \A i, j \in DOMAIN outs : i # j => outs[i].out.path # outs[j].out.path
       /\ Cardinality(created) >= Len(outs)

(***************************************************************************)
(* C14. Loading a text source yields exactly the set of its lines, each     *)
(* stripped of the whitespace at its two ends: duplicate lines give one     *)
(* name, a blank line gives the empty name (so a record with the empty name *)
(* is routed to that bucket), an empty source gives the empty set, and the  *)
(* same source loaded twice gives equal sets.                               *)
(***************************************************************************)
Max(S) == CHOOSE x \in S : \A y \in S : x >= y

\* a line without the whitespace before its first and after its last
\* character that is not whitespace
Stripped(l) ==
    LET inked == {k \in DOMAIN l : l[k] \notin Whitespace} IN
    IF inked = {} THEN <<>> ELSE SubSeq(l, Min(inked), Max(inked))

\* the lines of each source, as the file shows them
SourceLines(path) ==
    CASE path = S1Txt -> << <<"a">>, <<"c">> >>
      [] path = S2Txt -> << <<"b">>, <<"d">> >>
      [] path = S1Tsv -> << <<" ", "a">>, <<"a", NBSP>>, <<>>, <<FF, "b">> >>
      [] path = EPlain -> <<>>

\* the names a source is to give
LineSet(path) ==
    {Stripped(SourceLines(path)[k]) : k \in DOMAIN SourceLines(path)}

\* C14: a loaded set is the set of the trimmed lines of its source, the empty
\* name of a blank line included, and a record with that name is routed.
C14_LoadedSets ==
    /\ \A i \in DOMAIN loaded :
          loaded[i].state = "done" => loaded[i].set = LineSet(optsReads[i])
    /\ \A i \in DOMAIN reads :
          /\ reads[i].set = LineSet(reads[i].path)
          /\ SourceLines(reads[i].path) = <<>> => reads[i].set = {}
          /\ reads[i].path = S1Tsv =>
                reads[i].set = {<<"a">>, <<>>, <<"b">>}
    /\ \A i, j \in DOMAIN reads :
          reads[i].path = reads[j].path => reads[i].set = reads[j].set
    /\ (/\ pc \in {"Stream", "Finalize", "Done"}
        /\ Len(stream) >= 1
        /\ stream[1].qname = <<>>) =>
          \A i \in DOMAIN outs :
             (<<>> \in reads[i].set /\ \A j \in 1..(i - 1) : <<>> \notin reads[j].set)
                => Recs(outs, i)[1] = stream[1]

\* the source with a blank line was loaded twice, and the record with the
\* empty name went to its first bucket
C14_Witness ==
    /\ optsReads = <<S1Tsv, S1Tsv>>
    /\ Len(outs) = 2
    /\ Cardinality(reads[1].set) = 3
    /\ reads[1].set = reads[2].set
    /\ Len(stream) = 1
    /\ stream[1].qname = <<>>
    /\ Recs(outs, 1) = <<stream[1]>>

(***************************************************************************)
(* C15. Routing one record changes at most one bucket. When the record      *)
(* matches bucket i and is written, exactly its name leaves set i and       *)
(* exactly that record is appended to output i, every other bucket's set    *)
(* and output staying as they were; when it matches no bucket every set and *)
(* output stays as it was. No step puts a name into a set, and once the     *)
(* buckets are made their number, order and destinations never change.      *)
(***************************************************************************)
\* the buckets the step changed in any way
Touched == {i \in DOMAIN outs : outs'[i] # outs[i]}

\* the buckets' destinations, in bucket order
OutPaths(os) == [i \in DOMAIN os |-> os[i].out.path]

C15_Step ==
    /\ Cardinality(Touched) <= 1
    /\ Touched # {} => Evaluated
    /\ \A i \in DOMAIN outs : outs'[i].set \subseteq outs[i].set
    /\ (Routed /\ Matching(outs, Pulled.qname) # {}) =>
          \E i \in Matching(outs, Pulled.qname) :
             /\ Touched = {i}
             /\ outs'[i].set = outs[i].set \ {Pulled.qname}
             /\ Cardinality(outs'[i].set) = Cardinality(outs[i].set) - 1
             /\ Recs(outs', i) = Append(Recs(outs, i), Pulled)
    /\ (Evaluated /\ Matching(outs, Pulled.qname) = {}) => Touched = {}
    /\ pc \notin Idle => OutPaths(outs') = OutPaths(outs)
    /\ pc \in Idle => /\ Len(outs') >= Len(outs)
                      /\ \A i \in DOMAIN outs : outs'[i] = outs[i]

\* C15: a routing step changes at most the matched bucket, by one removal and
\* one append; sets never grow and the buckets never change place.
C15_Frame == [][C15_Step]_vars

\* the second bucket took the record; the first, whose set holds other
\* names, is as it was loaded
C15_Witness ==
    /\ Len(outs) = 2
    /\ Len(stream) = 1
    /\ Recs(outs, 1) = <<>>
    /\ outs[1].set = reads[1].set /\ outs[1].set # {}
    /\ Recs(outs, 2) = <<stream[1]>>
    /\ outs[2].set = reads[2].set \ {stream[1].qname}
    /\ outs[2].set # reads[2].set

(***************************************************************************)
(* C16. A run in which no open, decode or write error occurs reaches Done   *)
(* (the record stream being finite), and at Done every record of the stream *)
(* was routed exactly once, in arrival order, and one leftover count was    *)
(* reported for every bucket, in bucket order (to the logger, which writes  *)
(* the counts when the Info level is enabled and drops them otherwise).     *)
(***************************************************************************)
\* the places, over all the outputs, that hold the record of position k
Copies(os, k) ==
    {<<i, n>> \in (DOMAIN os) \X (1..Len(stream)) :
        n \in DOMAIN Recs(os, i) /\ Recs(os, i)[n].idx = k}

DoneRight ==
    /\ \A k \in DOMAIN stream : stream[k].ok /\ stream[k].idx = k
    /\ outs = ExpectedOuts(optsReads, stream)
    /\ \A k \in DOMAIN stream :
          /\ Cardinality(Copies(outs, k)) <= 1
          /\ Copies(outs, k) = {} <=>
                \A i \in DOMAIN outs :
                   stream[k].qname \notin reads[i].set \/
                   \E n \in DOMAIN Recs(outs, i) :
                      /\ Recs(outs, i)[n].idx < k
                      /\ Recs(outs, i)[n].qname = stream[k].qname
    /\ Len(reported) = Len(outs)
    /\ \A i \in DOMAIN outs : reported[i] = Cardinality(outs[i].set)
    /\ logged = Emitted

\* C16: without an error the run ends in Done, every record routed once in
\* arrival order and every bucket's leftover reported once in bucket order.
C16_Terminates == <>((pc = "Done" /\ DoneRight) \/ err # NoError)

\* a finished run over three records and two buckets with different
\* leftovers, on the default command line (no -v): reported, not written
C16_Witness ==
    /\ pc = "Done"
    /\ err = NoError
    /\ optsVerbose = 0
    /\ logged = <<>>
    /\ Len(stream) = 3
    /\ Len(outs) = 2
    /\ Len(reported) = 2
    /\ reported[1] # reported[2]
    /\ TotalMatched(outs) >= 1

(***************************************************************************)
(* C17. In every reachable state the names gone from bucket i's set are the *)
(* names of the records written to output i, and as many as those records.  *)
(* As claimed, this is to hold in the failed state after a write failure    *)
(* too; the code removes the name before it writes, so it holds there only  *)
(* up to the name of the record whose write failed.                         *)
(***************************************************************************)
\* the names that left bucket i's set since it was loaded
Gone(i) == reads[i].set \ outs[i].set

\* C17 as claimed: a name has left set i only if a record with it is in
\* output i, and the names gone are as many as the records written.
C17_RemovedEqualsWritten ==
    \A i \in DOMAIN outs :
       /\ Gone(i) \subseteq NamesWritten(outs, i)
       /\ Cardinality(Gone(i)) = Len(Recs(outs, i))

\* the buckets whose set lost a name that no record of their output carries
Unwritten == {i \in DOMAIN outs : Gone(i) # NamesWritten(outs, i)}

\* C17 as amended: names gone and records written agree in every state but
\* the one a write failure ends in, where exactly the bucket whose write
\* failed has lost one more name, that of the record that was not written.
C17_RemovedEqualsWrittenUnlessWriteFailed ==
    /\ \A i \in DOMAIN outs :
          /\ outs[i].set \subseteq reads[i].set
          /\ NamesWritten(outs, i) \subseteq Gone(i)
          /\ Len(Recs(outs, i)) = Cardinality(NamesWritten(outs, i))
    /\ err # WriteFailure => Unwritten = {}
    /\ err = WriteFailure =>
          LET last == stream[Len(stream)] IN
          /\ pc = "Failed"
          /\ \E i \in DOMAIN outs :
                /\ Unwritten = {i}
                /\ Gone(i) = NamesWritten(outs, i) \cup {last.qname}
                /\ Cardinality(Gone(i)) = Len(Recs(outs, i)) + 1
          /\ \A j \in DOMAIN outs : last.idx \notin WrittenIdx(outs, j)

\* a bucket that wrote one record and then failed to write a second: two
\* names are gone from its set, one record is in its output
C17_Witness ==
    /\ pc = "Failed"
    /\ err = WriteFailure
    /\ \E i \in DOMAIN outs :
          /\ Len(Recs(outs, i)) = 1
          /\ Cardinality(Gone(i)) = 2

====
